---- MODULE Spec2Model ----
(***************************************************************************)
(* Model of main() in src/tools/post_translation_operation_template.py:    *)
(* the beam-centre / flux pipeline that reads a detector stack and the     *)
(* exposure time from an HDF5 file, reduces the stack to a 2-D frame,      *)
(* masks invalid pixels, thresholds, takes the region properties,          *)
(* integrates a region of interest and writes two derived values back.     *)
(*                                                                         *)
(* Numbers are IEEE 754 doubles (numpy float64): every sum, product and    *)
(* quotient is rounded to 53 bits, ties to even, in the order in which     *)
(* numpy and skimage accumulate; nan, inf, -inf and the signed zeros       *)
(* follow the IEEE rules.  Significands are kept as sequences of 15-bit    *)
(* limbs.  Datasets are of an integer type or of float64.  Arrays are      *)
(* records [shape, dtype, data] where data maps 0-based index tuples to    *)
(* values, as numpy arrays do.                                             *)
(***************************************************************************)
EXTENDS Integers, Sequences, FiniteSets

\* ------------------------------------------------------------------------
\* Bounds of the model
\* ------------------------------------------------------------------------
MaxDim == 3
BigDim == 6
MaxROI == 1
MaxRank == 4
MaxStack == 3

\* ------------------------------------------------------------------------
\* Program constants
\* ------------------------------------------------------------------------
DefaultROI == 25
VMax == 1000000
KDen == 10000

None == "None"
CenterOfMassPath == "/entry/sample/beam/beamAnalysis/centerOfMass"
FluxPath == "/entry/sample/beam/beamAnalysis/flux"

Abs(x) == IF x < 0 THEN -x ELSE x

Min(a, b) == IF a < b THEN a ELSE b

Max(a, b) == IF a > b THEN a ELSE b

\* ------------------------------------------------------------------------
\* Natural numbers of any size: little-endian sequences of limbs, the last
\* limb not zero (TLC's integers are 32 bits wide, a double's significand 53)
\* ------------------------------------------------------------------------
LimbBits == 15
LimbBase == 32768

Rest(a) == IF Len(a) = 0 THEN a ELSE Tail(a)

Limb(a, i) == IF i <= Len(a) THEN a[i] ELSE 0

RECURSIVE BNNorm(_)
BNNorm(a) ==
    IF Len(a) > 0 /\ a[Len(a)] = 0 THEN BNNorm(SubSeq(a, 1, Len(a) - 1)) ELSE a

RECURSIVE BNFromInt(_)
BNFromInt(n) ==
    IF n = 0 THEN << >> ELSE <<n % LimbBase>> \o BNFromInt(n \div LimbBase)

RECURSIVE BNToInt(_)
BNToInt(a) == IF Len(a) = 0 THEN 0 ELSE a[1] + LimbBase * BNToInt(Tail(a))

RECURSIVE BNAddC(_, _, _)
BNAddC(a, b, c) ==
    IF Len(a) = 0 /\ Len(b) = 0 THEN (IF c = 0 THEN << >> ELSE <<c>>)
    ELSE LET x == Limb(a, 1) + Limb(b, 1) + c
         IN  <<x % LimbBase>> \o BNAddC(Rest(a), Rest(b), x \div LimbBase)

BNAdd(a, b) == BNAddC(a, b, 0)

\* a - b for a >= b
RECURSIVE BNSubB(_, _, _)
BNSubB(a, b, borrow) ==
    IF Len(a) = 0 THEN << >>
    ELSE LET x == a[1] - Limb(b, 1) - borrow
         IN  <<(x + LimbBase) % LimbBase>> \o BNSubB(Tail(a), Rest(b), IF x < 0 THEN 1 ELSE 0)

BNSub(a, b) == BNNorm(BNSubB(a, b, 0))

RECURSIVE BNCmpFrom(_, _, _)
BNCmpFrom(a, b, i) ==
    IF i = 0 THEN 0
    ELSE IF a[i] < b[i] THEN -1
    ELSE IF a[i] > b[i] THEN 1
    ELSE BNCmpFrom(a, b, i - 1)

\* -1, 0 or 1 as a < b, a = b or a > b
BNCmp(a, b) ==
    IF Len(a) < Len(b) THEN -1
    ELSE IF Len(a) > Len(b) THEN 1
    ELSE BNCmpFrom(a, b, Len(a))

\* a * k + c for one-limb k and c
RECURSIVE BNMulSmall(_, _, _)
BNMulSmall(a, k, c) ==
    IF Len(a) = 0 THEN (IF c = 0 THEN << >> ELSE <<c>>)
    ELSE LET x == a[1] * k + c
         IN  <<x % LimbBase>> \o BNMulSmall(Tail(a), k, x \div LimbBase)

ShiftLimbs(a, n) == IF Len(a) = 0 THEN a ELSE [i \in 1 .. n |-> 0] \o a

RECURSIVE BNMul(_, _)
BNMul(a, b) ==
    IF Len(a) = 0 \/ Len(b) = 0 THEN << >>
    ELSE BNAdd(BNMulSmall(a, b[1], 0), ShiftLimbs(BNMul(a, Tail(b)), 1))

\* a * 2^n
BNShl(a, n) == ShiftLimbs(BNMulSmall(a, 2 ^ (n % LimbBits), 0), n \div LimbBits)

\* quotient (limbs, not normalised) and remainder of a by 0 < k <= LimbBase
RECURSIVE BNDivSmall(_, _)
BNDivSmall(a, k) ==
    IF Len(a) = 0 THEN [q |-> << >>, r |-> 0]
    ELSE LET hi == BNDivSmall(Tail(a), k)
             x == hi.r * LimbBase + a[1]
         IN  [q |-> <<x \div k>> \o hi.q, r |-> x % k]

\* floor(a / 2^n)
BNShr(a, n) ==
    IF n \div LimbBits >= Len(a) THEN << >>
    ELSE BNNorm(BNDivSmall(SubSeq(a, (n \div LimbBits) + 1, Len(a)), 2 ^ (n % LimbBits)).q)

IntBitLen(x) == CHOOSE k \in 0 .. LimbBits : 2 ^ k > x /\ (k = 0 \/ 2 ^ (k - 1) <= x)

BNBitLen(a) ==
    IF Len(a) = 0 THEN 0 ELSE (Len(a) - 1) * LimbBits + IntBitLen(a[Len(a)])

\* bit i (from 0) of a
BNBit(a, i) == (Limb(a, (i \div LimbBits) + 1) \div (2 ^ (i % LimbBits))) % 2

\* the n lowest bits of a are all 0
BNLowZero(a, n) ==
    /\ \A i \in 1 .. Min(n \div LimbBits, Len(a)) : a[i] = 0
    /\ Limb(a, (n \div LimbBits) + 1) % (2 ^ (n % LimbBits)) = 0

\* number of trailing zero bits of a # 0
RECURSIVE BNTrailingZeros(_)
BNTrailingZeros(a) ==
    IF a[1] = 0 THEN LimbBits + BNTrailingZeros(Tail(a))
    ELSE CHOOSE k \in 0 .. (LimbBits - 1) : a[1] % (2 ^ k) = 0 /\ a[1] % (2 ^ (k + 1)) # 0

\* one step of the long division by b (top limb of b at least LimbBase / 2):
\* the quotient digit of r by b for r < b * LimbBase, estimated from the top
\* limbs (at most 2 too large) and corrected
BNDigit(r, b) ==
    LET n == Len(b)
        est == Min((Limb(r, n + 1) * LimbBase + Limb(r, n)) \div b[n], LimbBase - 1)
        fits(d) == BNCmp(BNMulSmall(b, d, 0), r) <= 0
    IN  IF est = 0 \/ fits(est) THEN est
        ELSE IF est = 1 \/ fits(est - 1) THEN est - 1
        ELSE est - 2

\* long division of a by b, one limb of a per step
RECURSIVE BNLongDiv(_, _)
BNLongDiv(a, b) ==
    IF Len(a) = 0 THEN [q |-> << >>, r |-> << >>]
    ELSE LET hi == BNLongDiv(Tail(a), b)
             r == BNNorm(<<a[1]>> \o hi.r)
             d == BNDigit(r, b)
         IN  [q |-> <<d>> \o hi.q, r |-> BNSub(r, BNMulSmall(b, d, 0))]

\* quotient of a by b # 0, and whether the remainder is 0
BNDivMod(a, b) ==
    IF Len(b) = 1
    THEN LET d == BNDivSmall(a, b[1]) IN [q |-> BNNorm(d.q), exact |-> d.r = 0]
    ELSE LET s == LimbBits - IntBitLen(b[Len(b)])
             d == BNLongDiv(BNShl(a, s), BNShl(b, s))
         IN  [q |-> BNNorm(d.q), exact |-> Len(d.r) = 0]

\* ------------------------------------------------------------------------
\* IEEE 754 binary64 (numpy float64, Python float)
\* ------------------------------------------------------------------------
Precision == 53
MinExponent == -1074
MaxExponent == 1024

\* A double: nan, inf, -inf, or (-1)^neg * m * 2^e with m odd (0: m = << >>,
\* e = 0; the sign of a zero is kept).
NaN == [kind |-> "nan", neg |-> FALSE, m |-> << >>, e |-> 0]

Inf == [kind |-> "inf", neg |-> FALSE, m |-> << >>, e |-> 0]

NegInf == [kind |-> "inf", neg |-> TRUE, m |-> << >>, e |-> 0]

SignedInf(neg) == IF neg THEN NegInf ELSE Inf

SignedZero(neg) == [kind |-> "fin", neg |-> neg, m |-> << >>, e |-> 0]

IsNaN(a) == a.kind = "nan"

IsInf(a) == a.kind = "inf"

IsFinite(a) == a.kind = "fin"

IsZero(a) == a.kind = "fin" /\ Len(a.m) = 0

\* the finite double (-1)^neg * M * 2^E, exactly
FMake(neg, M, E) ==
    IF Len(M) = 0 THEN SignedZero(neg)
    ELSE LET tz == BNTrailingZeros(M)
         IN  [kind |-> "fin", neg |-> neg, m |-> BNShr(M, tz), e |-> E + tz]

\* (-1)^neg * (M + f) * 2^E rounded to the nearest double, ties to even, where
\* 0 <= f < 1 and f > 0 iff sticky: at most Precision bits, none below
\* 2^MinExponent; a result of 2^MaxExponent or more is inf.
FRound(neg, M, E, sticky) ==
    LET L == BNBitLen(M)
        s == Max(L - Precision, MinExponent - E)
        Q == IF s <= 0 THEN M ELSE BNShr(M, s)
        up == /\ s > 0
              /\ BNBit(M, s - 1) = 1
              /\ (sticky \/ ~BNLowZero(M, s - 1) \/ BNBit(Q, 0) = 1)
        R == IF up THEN BNAdd(Q, <<1>>) ELSE Q
        E2 == IF s <= 0 THEN E ELSE E + s
    IN  IF BNBitLen(R) + E2 > MaxExponent THEN SignedInf(neg) ELSE FMake(neg, R, E2)

FFromInt(n) == FMake(n < 0, BNFromInt(Abs(n)), 0)

FNeg(a) == IF IsNaN(a) THEN a ELSE [a EXCEPT !.neg = ~a.neg]

\* a + b
FAdd(a, b) ==
    IF IsNaN(a) \/ IsNaN(b) THEN NaN
    ELSE IF IsInf(a) THEN (IF IsInf(b) /\ a.neg # b.neg THEN NaN ELSE a)
    ELSE IF IsInf(b) THEN b
    ELSE IF IsZero(a) /\ IsZero(b) THEN SignedZero(a.neg /\ b.neg)
    ELSE LET e0 == IF IsZero(a) THEN b.e ELSE IF IsZero(b) THEN a.e ELSE Min(a.e, b.e)
             A == BNShl(a.m, a.e - e0)
             B == BNShl(b.m, b.e - e0)
             c == BNCmp(A, B)
         IN  IF a.neg = b.neg THEN FRound(a.neg, BNAdd(A, B), e0, FALSE)
             ELSE IF c = 0 THEN SignedZero(FALSE)
             ELSE IF c > 0 THEN FRound(a.neg, BNSub(A, B), e0, FALSE)
             ELSE FRound(b.neg, BNSub(B, A), e0, FALSE)

FSub(a, b) == FAdd(a, FNeg(b))

\* a * b
FMul(a, b) ==
    IF IsNaN(a) \/ IsNaN(b) THEN NaN
    ELSE IF IsInf(a) \/ IsInf(b)
         THEN (IF IsZero(a) \/ IsZero(b) THEN NaN ELSE SignedInf(a.neg # b.neg))
    ELSE FRound(a.neg # b.neg, BNMul(a.m, b.m), a.e + b.e, FALSE)

\* a / b; no exception: x / 0 is inf, -inf or nan
FDiv(a, b) ==
    IF IsNaN(a) \/ IsNaN(b) THEN NaN
    ELSE IF IsInf(a) THEN (IF IsInf(b) THEN NaN ELSE SignedInf(a.neg # b.neg))
    ELSE IF IsInf(b) THEN SignedZero(a.neg # b.neg)
    ELSE IF IsZero(b) THEN (IF IsZero(a) THEN NaN ELSE SignedInf(a.neg # b.neg))
    ELSE IF IsZero(a) THEN SignedZero(a.neg # b.neg)
    ELSE LET k == Max(0, Precision + 3 + BNBitLen(b.m) - BNBitLen(a.m))
             d == BNDivMod(BNShl(a.m, k), b.m)
         IN  FRound(a.neg # b.neg, d.q, a.e - b.e - k, ~d.exact)

\* -1, 0, 1 as a < b, a = b, a > b, for a and b not nan
FCmpMag(a, b) ==
    IF IsZero(a) \/ IsZero(b)
    THEN (IF IsZero(a) /\ IsZero(b) THEN 0 ELSE IF IsZero(a) THEN -1 ELSE 1)
    ELSE LET ta == BNBitLen(a.m) + a.e
             tb == BNBitLen(b.m) + b.e
             e0 == Min(a.e, b.e)
         IN  IF ta < tb THEN -1
             ELSE IF ta > tb THEN 1
             ELSE BNCmp(BNShl(a.m, a.e - e0), BNShl(b.m, b.e - e0))

FCmp(a, b) ==
    IF IsInf(a) \/ IsInf(b)
    THEN (IF IsInf(a) /\ IsInf(b) /\ a.neg = b.neg THEN 0
          ELSE IF IsInf(a) THEN (IF a.neg THEN -1 ELSE 1)
          ELSE (IF b.neg THEN 1 ELSE -1))
    ELSE IF IsZero(a) /\ IsZero(b) THEN 0
    ELSE IF a.neg /\ ~b.neg THEN (IF IsZero(a) THEN -1 ELSE -1)
    ELSE IF ~a.neg /\ b.neg THEN 1
    ELSE IF a.neg THEN -FCmpMag(a, b)
    ELSE FCmpMag(a, b)

\* comparisons: every comparison with nan is false
FLE(a, b) == ~IsNaN(a) /\ ~IsNaN(b) /\ FCmp(a, b) <= 0

FLT(a, b) == ~IsNaN(a) /\ ~IsNaN(b) /\ FCmp(a, b) < 0

FEq(a, b) == ~IsNaN(a) /\ ~IsNaN(b) /\ FCmp(a, b) = 0

\* np.maximum(a, b): nan if either is nan
FMax(a, b) == IF IsNaN(a) \/ IsNaN(b) THEN NaN ELSE IF FLT(a, b) THEN b ELSE a

IsInt(a) == IsFinite(a) /\ a.e >= 0

\* int(a) of a finite double: truncation toward zero
Trunc(a) ==
    LET mag == IF a.e >= 0 THEN BNToInt(BNShl(a.m, a.e)) ELSE BNToInt(BNShr(a.m, -a.e))
    IN  IF a.neg THEN -mag ELSE mag

Zero == SignedZero(FALSE)

One == FFromInt(1)

\* res += seq[i] for i from the given index to the end, in this order
RECURSIVE SumFrom(_, _, _)
SumFrom(res, seq, i) ==
    IF i > Len(seq) THEN res ELSE SumFrom(FAdd(res, seq[i]), seq, i + 1)

\* one of the 8 partial sums of a run: r = seq[j]; r += seq[j + 8]; ...
RECURSIVE LaneFrom(_, _, _, _)
LaneFrom(res, seq, i, full) ==
    IF i > full THEN res ELSE LaneFrom(FAdd(res, seq[i]), seq, i + 8, full)

\* numpy's sum of one contiguous or strided run of at most 128 elements
\* (pairwise_sum): fewer than 8 elements are added one by one to 0; otherwise
\* 8 partial sums are kept, combined as a tree, and the rest is added.
PairwiseSum(seq) ==
    LET n == Len(seq)
        full == n - (n % 8)
        r(j) == LaneFrom(seq[j], seq, j + 8, full)
    IN  IF n < 8 THEN SumFrom(Zero, seq, 1)
        ELSE SumFrom(FAdd(FAdd(FAdd(r(1), r(2)), FAdd(r(3), r(4))),
                          FAdd(FAdd(r(5), r(6)), FAdd(r(7), r(8)))),
                     seq, full + 1)

\* ------------------------------------------------------------------------
\* numpy arrays
\* ------------------------------------------------------------------------
RECURSIVE Indices(_)
Indices(shape) ==
    IF shape = << >> THEN { << >> }
    ELSE { <<i>> \o t : i \in 0 .. (shape[1] - 1), t \in Indices(Tail(shape)) }

Ndim(a) == Len(a.shape)

\* np.mean(a, axis=0): the slices are added in float64, one after the other
\* (fewer than 8 slices), and the sum is divided by their number
MeanAxis0(a) ==
    LET n == a.shape[1]
        rest == Tail(a.shape)
    IN  [shape |-> rest,
         dtype |-> "float",
         data  |-> [idx \in Indices(rest) |->
                      FDiv(SumFrom(Zero, [k \in 1 .. n |-> a.data[<<k - 1>> \o idx]], 1),
                           FFromInt(n))]]

\* a.max(): nan if any element is nan
ArrMax(a) ==
    LET vals == { a.data[idx] : idx \in DOMAIN a.data }
    IN  IF \E x \in vals : IsNaN(x) THEN NaN
        ELSE CHOOSE x \in vals : \A y \in vals : FLE(y, x)

\* Python slice start:stop on an axis of length n (negative bounds count from
\* the end, everything is clipped to the axis): the selected indices.
PySlice(start, stop, n) ==
    LET norm(b) == IF b < 0 THEN Max(b + n, 0) ELSE Min(b, n)
    IN  norm(start) .. (norm(stop) - 1)

\* Ascending sequence of a finite set of integers.
RECURSIVE SortedSeq(_)
SortedSeq(S) ==
    IF S = {} THEN << >>
    ELSE LET m == CHOOSE x \in S : \A y \in S : x <= y
         IN  <<m>> \o SortedSeq(S \ {m})

RECURSIVE IntSumOver(_, _)
IntSumOver(S, f) ==
    IF S = {} THEN 0
    ELSE LET x == CHOOSE y \in S : TRUE
         IN  f[x] + IntSumOver(S \ {x}, f)


\* int(str): a string is a sequence of one-character strings, over the
\* alphabet of ASCII digits, "+", "-", "_", the blank and "x" (any other
\* character).  int() strips surrounding blanks, takes one optional sign and
\* then digits, single underscores allowed between digits; anything else is
\* a ValueError.
Digits == <<"0", "1", "2", "3", "4", "5", "6", "7", "8", "9">>

IsDigit(c) == \E i \in 1 .. Len(Digits) : Digits[i] = c

DigitVal(c) == (CHOOSE i \in 1 .. Len(Digits) : Digits[i] = c) - 1

RECURSIVE Strip(_)
Strip(s) ==
    IF Len(s) = 0 THEN s
    ELSE IF s[1] = " " THEN Strip(Tail(s))
    ELSE IF s[Len(s)] = " " THEN Strip(SubSeq(s, 1, Len(s) - 1))
    ELSE s

DigitBodyOk(s) ==
    /\ Len(s) > 0
    /\ IsDigit(s[1]) /\ IsDigit(s[Len(s)])
    /\ \A i \in 1 .. Len(s) : IsDigit(s[i]) \/ s[i] = "_"
    /\ \A i \in 1 .. (Len(s) - 1) : ~(s[i] = "_" /\ s[i + 1] = "_")

RECURSIVE DigitBodyVal(_)
DigitBodyVal(s) ==
    IF Len(s) = 0 THEN 0
    ELSE LET init == SubSeq(s, 1, Len(s) - 1)
         IN  IF s[Len(s)] = "_" THEN DigitBodyVal(init)
             ELSE DigitBodyVal(init) * Len(Digits) + DigitVal(s[Len(s)])

ParseInt(s) ==
    LET t == Strip(s)
        signed == Len(t) > 0 /\ t[1] \in {"+", "-"}
        body == IF signed THEN Tail(t) ELSE t
    IN  IF DigitBodyOk(body)
        THEN [ok |-> TRUE,
              val |-> IF signed /\ t[1] = "-" THEN -DigitBodyVal(body) ELSE DigitBodyVal(body)]
        ELSE [ok |-> FALSE, val |-> 0]

\* keyvals is None, or a dict from strings to strings (here: the dict, a
\* function, wrapped in a one-element sequence).
NoKeyvals == << >>

\* line 60: 25, int(keyvals['roi_size']), or the KeyError / ValueError it raises
RoiSizeOf(kv) ==
    IF kv = NoKeyvals THEN [error |-> "none", value |-> DefaultROI]
    ELSE IF "roi_size" \notin DOMAIN kv[1] THEN [error |-> "KeyError", value |-> 0]
    ELSE LET r == ParseInt(kv[1]["roi_size"])
         IN  IF r.ok THEN [error |-> "none", value |-> r.val]
             ELSE [error |-> "ValueError", value |-> 0]

\* ------------------------------------------------------------------------
\* Pipeline stages (pure parts)
\* ------------------------------------------------------------------------

\* the float literal 0.0001: the double nearest to 1/10000
KFrac == FDiv(One, FFromInt(KDen))

\* line 76: np.logical_and(imageData >= 0, imageData <= 1e6) for one pixel
ValidPixel(x) == FLE(Zero, x) /\ FLE(x, FFromInt(VMax))

\* line 76: (...).astype(int)
ValidityMask(img) ==
    [shape |-> img.shape,
     dtype |-> "int",
     data  |-> [idx \in DOMAIN img.data |-> IF ValidPixel(img.data[idx]) THEN 1 ELSE 0]]

\* x * mask for a pixel of an array of type dtype and a mask of 0 or 1: the
\* integer product, or the float64 product (-1.0 * 0 = -0.0, nan * 0 = nan,
\* inf * 0 = nan)
TimesMask(x, mask, dtype) ==
    IF dtype = "int" THEN (IF mask = 1 THEN x ELSE Zero)
    ELSE FMul(x, FFromInt(mask))

\* line 77: imageData * labeled_foreground
ApplyMask(img, mask) ==
    [shape |-> img.shape,
     dtype |-> img.dtype,
     data  |-> [idx \in DOMAIN img.data |->
                  TimesMask(img.data[idx], mask.data[idx], img.dtype)]]

\* line 78: np.maximum(1, 0.0001 * maskedTwoDImage.max())
ThresholdValue(masked) == FMax(One, FMul(KFrac, ArrMax(masked)))

\* line 79: (maskedTwoDImage > threshold_value).astype(int)
PeakLabel(masked, thr) ==
    [shape |-> masked.shape,
     dtype |-> "int",
     data  |-> [idx \in DOMAIN masked.data |-> IF FLT(thr, masked.data[idx]) THEN 1 ELSE 0]]

\* 8-connected components of a set of pixels.
Adjacent(p, q) == p # q /\ Abs(p[1] - q[1]) <= 1 /\ Abs(p[2] - q[2]) <= 1

RECURSIVE Flood(_, _)
Flood(S, fg) ==
    LET nxt == S \cup { q \in fg : \E p \in S : Adjacent(p, q) }
    IN  IF nxt = S THEN S ELSE Flood(nxt, fg)

Components(fg) == { Flood({p}, fg) : p \in fg }

\* skimage.measure.regionprops(label_image, intensity_image): one region per
\* non-zero label value present in label_image, in ascending label order.  The
\* label image is taken as given: pixels that carry the same label form one
\* region whether or not they touch.
RegionProps(label_image, intensity_image) ==
    LET labels == { label_image.data[idx] : idx \in DOMAIN label_image.data } \ {0}
        ordered == SortedSeq(labels)
    IN  [n \in 1 .. Len(ordered) |->
            [label  |-> ordered[n],
             coords |-> { idx \in DOMAIN label_image.data : label_image.data[idx] = ordered[n] },
             intensity_image |-> intensity_image]]

\* region.centroid: coords.mean(axis=0), the sum of the pixel coordinates
\* (integers) over their number
Centroid(region) ==
    LET n == Cardinality(region.coords)
        axis(k) == FDiv(FFromInt(IntSumOver(region.coords,
                                            [idx \in region.coords |-> idx[k]])),
                        FFromInt(n))
    IN  <<axis(1), axis(2)>>

\* The weighted centroid of the pixel set coords under the intensities img:
\* the intensity is cut to the bounding box of coords and multiplied by the
\* region's mask, the raw moments M[p][q] = sum_j (sum_i I[i][j] * i^p) * j^q
\* are accumulated in index order (two matrix products), the centroid in the
\* box is (M[1][0] / M[0][0], M[0][1] / M[0][0]) and the corner of the box is
\* added to it.
MomentCentroid(coords, img) ==
    LET r0 == CHOOSE r \in {p[1] : p \in coords} : \A p \in coords : r <= p[1]
        r1 == CHOOSE r \in {p[1] : p \in coords} : \A p \in coords : r >= p[1]
        c0 == CHOOSE c \in {p[2] : p \in coords} : \A p \in coords : c <= p[2]
        c1 == CHOOSE c \in {p[2] : p \in coords} : \A p \in coords : c >= p[2]
        I(i, j) == TimesMask(img.data[<<r0 + i, c0 + j>>],
                             IF <<r0 + i, c0 + j>> \in coords THEN 1 ELSE 0,
                             img.dtype)
        pow(x, p) == FFromInt(IF p = 0 THEN 1 ELSE x)
        col(j, p) == SumFrom(Zero, [i \in 1 .. (r1 - r0 + 1) |->
                                       FMul(I(i - 1, j), pow(i - 1, p))], 1)
        M(p, q) == SumFrom(Zero, [j \in 1 .. (c1 - c0 + 1) |->
                                     FMul(col(j - 1, p), pow(j - 1, q))], 1)
        m00 == M(0, 0)
    IN  <<FAdd(FDiv(M(1, 0), m00), FFromInt(r0)),
          FAdd(FDiv(M(0, 1), m00), FFromInt(c0))>>

\* the weighted centroid with the intensity of every pixel of the image, those
\* outside the region included
WeightedCentroidWholeImage(region) ==
    MomentCentroid(DOMAIN region.intensity_image.data, region.intensity_image)

\* region.weighted_centroid
WeightedCentroid(region) == MomentCentroid(region.coords, region.intensity_image)

\* the start of the slice without the clamp at 0
ROIStartUnclamped(c, R) == Trunc(FSub(c, FFromInt(R)))

\* lines 85-86: np.maximum(int(c - ROI_SIZE), 0)
ROIStart(c, R) == Max(Trunc(FSub(c, FFromInt(R))), 0)

\* lines 85-86: np.minimum(int(c + ROI_SIZE), maskedTwoDImage.shape[axis])
ROIStop(c, R, n) == Min(Trunc(FAdd(c, FFromInt(R))), n)

\* lines 84-87: the slice bounds and the index sets they select
ROIWindow(masked, wc, R) ==
    LET r0 == ROIStart(wc[1], R)
        r1 == ROIStop(wc[1], R, masked.shape[1])
        c0 == ROIStart(wc[2], R)
        c1 == ROIStop(wc[2], R, masked.shape[2])
    IN  [r0 |-> r0, r1 |-> r1, c0 |-> c0, c1 |-> c1,
         rows |-> PySlice(r0, r1, masked.shape[1]),
         cols |-> PySlice(c0, c1, masked.shape[2])]

\* lines 84-87: np.sum(maskedTwoDImage[r0:r1, c0:c1]) over the rows and columns
\* selected.  The sum starts at 0 and adds the sum of each run: the whole
\* selection in raster order is one run when it has one row, one column or
\* full rows, and otherwise every row of it is a run.
WindowSum(masked, rows, cols) ==
    LET rs == SortedSeq(rows)
        cs == SortedSeq(cols)
        nr == Len(rs)
        nc == Len(cs)
        run(i) == [j \in 1 .. nc |-> masked.data[<<rs[i], cs[j]>>]]
        flat == [n \in 1 .. (nr * nc) |->
                    masked.data[<<rs[((n - 1) \div nc) + 1], cs[((n - 1) % nc) + 1]>>]]
    IN  IF nr = 0 \/ nc = 0 THEN Zero
        ELSE IF nr = 1 \/ nc = 1 \/ nc = masked.shape[2]
             THEN FAdd(Zero, PairwiseSum(flat))
        ELSE SumFrom(Zero, [i \in 1 .. nr |-> PairwiseSum(run(i))], 1)

\* lines 90, 108: ITotal_region / recordingTime on numpy scalars: a division
\* by zero yields inf or nan (with a warning), never an exception.
NumpyDivide(a, b) == FDiv(a, b)

\* lines 94-114
MakeElements(com, total, time) ==
    << [destination |-> CenterOfMassPath, default_value |-> com,
        data_type |-> "float32", destination_units |-> "px",
        minimum_dimensionality |-> 1],
       [destination |-> FluxPath, default_value |-> NumpyDivide(total, time),
        data_type |-> "float", destination_units |-> "counts/s",
        minimum_dimensionality |-> 1] >>

\* process_translation_element(None, h5_out, element): attach the value and
\* its unit at the destination path of the open file.
Attach(file, element) ==
    [p \in DOMAIN file \cup {element.destination} |->
        IF p = element.destination
        THEN [value |-> element.default_value, units |-> element.destination_units]
        ELSE file[p]]

\* ------------------------------------------------------------------------
\* Inputs: the contents of the HDF5 file and the command-line key-values
\* ------------------------------------------------------------------------
BgVals == {-1, 0, 2, 3}
SpotVals == {-1, 3, 20000, VMax, VMax + 1}
SpecialVals == {NaN, Inf, NegInf}
ExposureTimes == {-1, 0, 2}

\* the double nearest to 1/10, and 3 + 1/10
Tenth == FDiv(One, FFromInt(10))

FloatVals == {Tenth, FAdd(FFromInt(3), Tenth)}

\* A 2-D frame of uniform background with one pixel set to another value.
SpotFrame(h, w, dtype, bg, p, v) ==
    [shape |-> <<h, w>>,
     dtype |-> dtype,
     data  |-> [idx \in Indices(<<h, w>>) |-> IF idx = p THEN v ELSE bg]]

\* Integer frames (detector counts).
SpotFrames(h, w, bgs) ==
    { SpotFrame(h, w, "int", FFromInt(bg), p, FFromInt(v)) :
        bg \in bgs, p \in Indices(<<h, w>>), v \in SpotVals \cup bgs }

\* Float frames with one pixel that is nan, inf or -inf.
SpecialSpotFrames(h, w, bgs) ==
    { SpotFrame(h, w, "float", FFromInt(bg), p, v) :
        bg \in bgs, p \in Indices(<<h, w>>), v \in SpecialVals }

\* Float frames with one pixel that is no integer.
FloatSpotFrames(h, w, bgs) ==
    { SpotFrame(h, w, "float", FFromInt(bg), p, v) :
        bg \in bgs, p \in Indices(<<h, w>>), v \in FloatVals }

SmallFrames == UNION { SpotFrames(h, w, BgVals) : h \in 1 .. MaxDim, w \in 1 .. MaxDim }

BigFrames == SpotFrames(BigDim, BigDim, {0})

SpecialFrames == UNION { SpecialSpotFrames(h, w, {0, 3}) : h \in 1 .. 2, w \in 1 .. 2 }

FloatFrames == UNION { FloatSpotFrames(h, w, {0, 3}) : h \in 1 .. 2, w \in 1 .. 2 }

\* The frames run with the unusual key-values.
ProbeFrames == SpotFrames(2, 2, {0, 3})

\* A stack of rank 2 + Len(axes) over a base frame: along leading axis a the
\* slices are identical, or (ramp) slice k is the base plus k counts per pixel.
AxisOpts == [size : 1 .. MaxStack, ramp : BOOLEAN]

RECURSIVE RampSum(_, _)
RampSum(axes, lead) ==
    IF Len(axes) = 0 THEN 0
    ELSE (IF Head(axes).ramp THEN Head(lead) ELSE 0) + RampSum(Tail(axes), Tail(lead))

Stack(base, axes) ==
    LET lshape == [a \in 1 .. Len(axes) |-> axes[a].size]
        shape == lshape \o base.shape
        k == Len(axes)
    IN  [shape |-> shape,
         dtype |-> base.dtype,
         data  |-> [idx \in Indices(shape) |->
                      FAdd(base.data[SubSeq(idx, k + 1, k + 2)],
                           FFromInt(RampSum(axes, SubSeq(idx, 1, k))))]]

\* The base frames of the stacks: [[0, v]] of integers or of floats.
StackBases ==
    { SpotFrame(1, 2, "int", Zero, <<0, 1>>, FFromInt(v)) : v \in {3, 20000} }
    \cup { SpotFrame(1, 2, "float", Zero, <<0, 1>>, v) : v \in SpecialVals \cup FloatVals }

Stacks ==
    { Stack(b, axes) : b \in StackBases,
                       axes \in UNION { [1 .. k -> AxisOpts] : k \in 1 .. (MaxRank - 2) } }

\* Stacks of MaxStack column frames [a, 7, a], the first with its own a: the
\* mean has thirds in it.
ColumnFrame(a) ==
    [shape |-> <<3, 1>>, dtype |-> "int",
     data |-> [idx \in Indices(<<3, 1>>) |-> FFromInt(IF idx[1] = 1 THEN 7 ELSE a)]]

ColumnStacks ==
    { [shape |-> <<MaxStack, 3, 1>>, dtype |-> "int",
       data |-> [idx \in Indices(<<MaxStack, 3, 1>>) |->
                    (IF idx[1] = 0 THEN ColumnFrame(a) ELSE ColumnFrame(b)).data[Tail(idx)]]] :
        a \in 1 .. 2, b \in 1 .. 2 }

RECURSIVE ToDigits(_)
ToDigits(n) ==
    IF n < Len(Digits) THEN <<Digits[n + 1]>>
    ELSE ToDigits(n \div Len(Digits)) \o <<Digits[(n % Len(Digits)) + 1]>>

RoiDict(str) == <<[roi_size |-> str]>>

\* None, or roi_size given as a plain number
KeyvalChoices == {NoKeyvals} \cup { RoiDict(ToDigits(n)) : n \in 0 .. MaxROI }

\* Dicts without roi_size, and roi_size strings that are signed, padded,
\* underscored, empty or no number at all
OddKeyvals ==
    { <<[k \in {} |-> << >>]>>,
      <<[foo |-> <<"1">>]>>,
      RoiDict(<< >>),
      RoiDict(<<"-", "1">>),
      RoiDict(<<"+", "1">>),
      RoiDict(<<" ", "1", " ">>),
      RoiDict(<<"1", "_", "0">>),
      RoiDict(<<"1", "_", "_", "0">>),
      RoiDict(<<"_", "1">>),
      RoiDict(<<"-">>),
      RoiDict(<<"+", " ", "1">>),
      RoiDict(<<"1", "x">>) }

InputsOf(frames, times, keyvalSet) ==
    { [data |-> f, count_time |-> FFromInt(t), keyvals |-> kv] :
        f \in frames, t \in times, kv \in keyvalSet }

Inputs ==
    InputsOf(SmallFrames, {2}, KeyvalChoices)
    \cup InputsOf(BigFrames, ExposureTimes, KeyvalChoices)
    \cup InputsOf(Stacks, {2}, {NoKeyvals})
    \cup InputsOf(ColumnStacks \cup FloatFrames, {2}, KeyvalChoices)
    \cup InputsOf(SpecialFrames, ExposureTimes, {NoKeyvals, RoiDict(<<"1">>)})
    \cup InputsOf(ProbeFrames, {2}, OddKeyvals)

\* ------------------------------------------------------------------------
\* State
\* ------------------------------------------------------------------------
VARIABLES
    keyvals,                 \* argument of main()
    h5_in,                   \* the datasets main() reads from the file
    h5_out,                  \* what this run has attached to the file
    pc,                      \* the next step of main()
    error,                   \* the exception main() ended with, or "none"
    ROI_SIZE,
    imageData,
    recordingTime,
    iterations,              \* passes of the while loop of lines 72-73
    labeled_foreground,
    maskedTwoDImage,
    threshold_value,
    labeled_peak,
    properties,
    center_of_mass,
    weighted_center_of_mass,
    roi,                     \* the slice of lines 85-86
    ITotal_region,
    TElements,
    written                  \* elements the loop of lines 118-119 has processed

vars == <<keyvals, h5_in, h5_out, pc, error, ROI_SIZE, imageData, recordingTime,
          iterations, labeled_foreground, maskedTwoDImage, threshold_value,
          labeled_peak, properties, center_of_mass, weighted_center_of_mass,
          roi, ITotal_region, TElements, written>>

inputVars == <<keyvals, h5_in>>
readVars == <<imageData, recordingTime, iterations>>
maskVars == <<labeled_foreground, maskedTwoDImage>>
peakVars == <<threshold_value, labeled_peak>>
regionVars == <<properties, center_of_mass, weighted_center_of_mass>>
fluxVars == <<roi, ITotal_region>>
writeVars == <<TElements, written, h5_out>>

Init ==
    /\ \E in \in Inputs :
          /\ keyvals = in.keyvals
          /\ h5_in = [data |-> in.data, count_time |-> in.count_time]
    /\ h5_out = << >>
    /\ pc = "params"
    /\ error = "none"
    /\ ROI_SIZE = None
    /\ imageData = None
    /\ recordingTime = None
    /\ iterations = 0
    /\ labeled_foreground = None
    /\ maskedTwoDImage = None
    /\ threshold_value = None
    /\ labeled_peak = None
    /\ properties = None
    /\ center_of_mass = None
    /\ weighted_center_of_mass = None
    /\ roi = None
    /\ ITotal_region = None
    /\ TElements = None
    /\ written = 0

Running(step) == pc = step /\ error = "none"

\* line 60
ProcessParams ==
    /\ Running("params")
    /\ RoiSizeOf(keyvals).error = "none"
    /\ ROI_SIZE' = RoiSizeOf(keyvals).value
    /\ pc' = "read"
    /\ UNCHANGED <<inputVars, readVars, maskVars, peakVars, regionVars, fluxVars,
                   writeVars, error>>

\* line 60: keyvals['roi_size'] raises KeyError, or int() ValueError, out of main()
RaiseParamError ==
    /\ Running("params")
    /\ RoiSizeOf(keyvals).error # "none"
    /\ error' = RoiSizeOf(keyvals).error
    /\ UNCHANGED <<inputVars, ROI_SIZE, readVars, maskVars, peakVars, regionVars,
                   fluxVars, writeVars, pc>>

\* lines 63-66
ReadFile ==
    /\ Running("read")
    /\ imageData' = h5_in.data
    /\ recordingTime' = h5_in.count_time
    /\ pc' = "reduce"
    /\ UNCHANGED <<inputVars, ROI_SIZE, iterations, maskVars, peakVars, regionVars,
                   fluxVars, writeVars, error>>

\* lines 72-73: one pass of the while loop
ReduceStep ==
    /\ Running("reduce")
    /\ Ndim(imageData) > 2
    /\ imageData' = MeanAxis0(imageData)
    /\ iterations' = iterations + 1
    /\ UNCHANGED <<inputVars, ROI_SIZE, recordingTime, maskVars, peakVars, regionVars,
                   fluxVars, writeVars, pc, error>>

\* lines 72, 76-77: the loop ends, the validity mask is made and applied
MaskInvalid ==
    /\ Running("reduce")
    /\ ~(Ndim(imageData) > 2)
    /\ labeled_foreground' = ValidityMask(imageData)
    /\ maskedTwoDImage' = ApplyMask(imageData, ValidityMask(imageData))
    /\ pc' = "segment"
    /\ UNCHANGED <<inputVars, ROI_SIZE, readVars, peakVars, regionVars, fluxVars,
                   writeVars, error>>

\* lines 78-79
SegmentPeak ==
    /\ Running("segment")
    /\ threshold_value' = ThresholdValue(maskedTwoDImage)
    /\ labeled_peak' = PeakLabel(maskedTwoDImage, ThresholdValue(maskedTwoDImage))
    /\ pc' = "regionprops"
    /\ UNCHANGED <<inputVars, ROI_SIZE, readVars, maskVars, regionVars, fluxVars,
                   writeVars, error>>

\* line 80
ComputeRegions ==
    /\ Running("regionprops")
    /\ properties' = RegionProps(labeled_peak, imageData)
    /\ pc' = "centroids"
    /\ UNCHANGED <<inputVars, ROI_SIZE, readVars, maskVars, peakVars, center_of_mass,
                   weighted_center_of_mass, fluxVars, writeVars, error>>

\* lines 81-82: properties[0] of a non-empty list
TakeCentroids ==
    /\ Running("centroids")
    /\ Len(properties) > 0
    /\ center_of_mass' = Centroid(properties[1])
    /\ weighted_center_of_mass' = WeightedCentroid(properties[1])
    /\ pc' = "integrate"
    /\ UNCHANGED <<inputVars, ROI_SIZE, readVars, maskVars, peakVars, properties,
                   fluxVars, writeVars, error>>

\* line 81: properties[0] of an empty list raises IndexError out of main()
RaiseIndexError ==
    /\ Running("centroids")
    /\ Len(properties) = 0
    /\ error' = "IndexError"
    /\ UNCHANGED <<inputVars, ROI_SIZE, readVars, maskVars, peakVars, regionVars,
                   fluxVars, writeVars, pc>>

\* lines 84-87
Integrate ==
    /\ Running("integrate")
    /\ LET win == ROIWindow(maskedTwoDImage, weighted_center_of_mass, ROI_SIZE)
       IN  /\ roi' = win
           /\ ITotal_region' = WindowSum(maskedTwoDImage, win.rows, win.cols)
    /\ pc' = "elements"
    /\ UNCHANGED <<inputVars, ROI_SIZE, readVars, maskVars, peakVars, regionVars,
                   writeVars, error>>

\* lines 89-114
BuildElements ==
    /\ Running("elements")
    /\ TElements' = MakeElements(center_of_mass, ITotal_region, recordingTime)
    /\ pc' = "write"
    /\ UNCHANGED <<inputVars, ROI_SIZE, readVars, maskVars, peakVars, regionVars,
                   fluxVars, written, h5_out, error>>

\* lines 117-119: one pass of the for loop, the write succeeds
WriteElement ==
    /\ Running("write")
    /\ written < Len(TElements)
    /\ h5_out' = Attach(h5_out, TElements[written + 1])
    /\ written' = written + 1
    /\ UNCHANGED <<inputVars, ROI_SIZE, readVars, maskVars, peakVars, regionVars,
                   fluxVars, TElements, pc, error>>

\* lines 117-119: process_translation_element fails; the exception leaves
\* the with block (the file is closed with what was attached so far) and main()
WriteFails ==
    /\ Running("write")
    /\ written < Len(TElements)
    /\ error' = "WriteError"
    /\ UNCHANGED <<inputVars, ROI_SIZE, readVars, maskVars, peakVars, regionVars,
                   fluxVars, writeVars, pc>>

\* lines 118, 121: the loop is exhausted
Finish ==
    /\ Running("write")
    /\ written = Len(TElements)
    /\ pc' = "done"
    /\ UNCHANGED <<inputVars, ROI_SIZE, readVars, maskVars, peakVars, regionVars,
                   fluxVars, writeVars, error>>

Next ==
    \/ ProcessParams
    \/ RaiseParamError
    \/ ReadFile
    \/ ReduceStep
    \/ MaskInvalid
    \/ SegmentPeak
    \/ ComputeRegions
    \/ TakeCentroids
    \/ RaiseIndexError
    \/ Integrate
    \/ BuildElements
    \/ WriteElement
    \/ WriteFails
    \/ Finish

Spec == Init /\ [][Next]_vars

\* ------------------------------------------------------------------------
\* Vocabulary of the properties
\* ------------------------------------------------------------------------
StepOrder == <<"params", "read", "reduce", "segment", "regionprops", "centroids",
               "integrate", "elements", "write", "done">>

StepIndex(p) == CHOOSE i \in 1 .. Len(StepOrder) : StepOrder[i] = p

\* The step named p has been executed.
Past(p) == StepIndex(pc) > StepIndex(p)

\* main() has returned or raised.
Ended == pc = "done" \/ error # "none"

Foreground == { idx \in DOMAIN labeled_peak.data : labeled_peak.data[idx] = 1 }

FPos(x) == FLT(Zero, x)

\* Centroids of a pixel set S, equally weighted and weighted by img.
SetCentroid(S) ==
    [k \in 1 .. 2 |->
        FDiv(FFromInt(IntSumOver(S, [idx \in S |-> idx[k]])), FFromInt(Cardinality(S)))]

SetWeightedCentroid(S, img) == MomentCentroid(S, img)

\* ------------------------------------------------------------------------
\* C1
\* ------------------------------------------------------------------------
InclusiveWindow(c, R, n) == Max(0, c - R) .. Min(n - 1, c + R)

InclusiveWindowSum ==
    WindowSum(maskedTwoDImage,
              InclusiveWindow(Trunc(weighted_center_of_mass[1]), ROI_SIZE,
                              maskedTwoDImage.shape[1]),
              InclusiveWindow(Trunc(weighted_center_of_mass[2]), ROI_SIZE,
                              maskedTwoDImage.shape[2]))

\* C1: for ROI_SIZE R >= 0 and the weighted centroid (r, c) on a pixel, the integrated intensity
\* is the sum of the masked frame over rows max(0, r-R)..min(H-1, r+R) and
\* columns max(0, c-R)..min(W-1, c+R), both ends included, and the flux built
\* for the write-back is that sum over the exposure time when that is positive.
C1_InclusiveWindowFlux ==
    (Past("integrate") /\ ROI_SIZE >= 0
                       /\ IsInt(weighted_center_of_mass[1])
                       /\ IsInt(weighted_center_of_mass[2]))
    => /\ FEq(ITotal_region, InclusiveWindowSum)
       /\ (Past("elements") /\ FPos(recordingTime))
            => FEq(TElements[2].default_value, FDiv(InclusiveWindowSum, recordingTime))

\* ------------------------------------------------------------------------
\* C2
\* ------------------------------------------------------------------------
\* C2: when main() has ended, however it ended, the file holds both
\* centerOfMass and flux of this run, or neither.
C2_BothOrNeither ==
    Ended => ((CenterOfMassPath \in DOMAIN h5_out) <=> (FluxPath \in DOMAIN h5_out))

\* ------------------------------------------------------------------------
\* C3
\* ------------------------------------------------------------------------
\* C3: a run whose foreground mask has no true pixel ends with NoRegionFound,
\* not with an indexing failure, and has written nothing.
C3_NoRegionFound ==
    (Past("segment") /\ Foreground = {} /\ Ended)
    => (error = "NoRegionFound" /\ DOMAIN h5_out = {})

\* ------------------------------------------------------------------------
\* C4
\* ------------------------------------------------------------------------
\* C4: InvalidExposureTime is signalled exactly for exposure_time <= 0: a run
\* that gets as far as the flux with exposure_time <= 0 has signalled it, it is
\* never signalled for exposure_time > 0, and no flux divided by a zero or
\* negative exposure time is in the file.
C4_InvalidExposureTime ==
    /\ (Past("elements") /\ ~FPos(recordingTime)) => error = "InvalidExposureTime"
    /\ error = "InvalidExposureTime" => ~FPos(recordingTime)
    /\ FluxPath \in DOMAIN h5_out => FPos(recordingTime)

\* ------------------------------------------------------------------------
\* C5
\* ------------------------------------------------------------------------
\* C5: with two or more disjoint connected components in the
\* foreground mask, both centroids are those of exactly one component.
C5_OneComponentOnly ==
    (Past("centroids") /\ Cardinality(Components(Foreground)) >= 2)
    => \E S \in Components(Foreground) :
          /\ center_of_mass = SetCentroid(S)
          /\ weighted_center_of_mass = SetWeightedCentroid(S, imageData)

\* C5 (what the code does): with two or more disjoint connected components in
\* the foreground mask, the region list of line 80 has exactly one region, it
\* holds every foreground pixel, and both centroids of lines 81-82 are taken
\* over the pixels of all components together.
C5_AllComponentsTogether ==
    (Past("centroids") /\ Cardinality(Components(Foreground)) >= 2)
    => /\ Len(properties) = 1
       /\ properties[1].coords = UNION Components(Foreground)
       /\ center_of_mass = SetCentroid(Foreground)
       /\ weighted_center_of_mass = SetWeightedCentroid(Foreground, imageData)

\* ------------------------------------------------------------------------
\* C6
\* ------------------------------------------------------------------------
\* Pixel i lies in the window of half-width R that starts at c - R: its
\* truncated start is at most one pixel below c - R, and i + 1 <= c + R (the
\* sum and the difference as the program computes them, in float64).
NearCentroid(i, c, R) ==
    /\ FLT(FSub(c, FFromInt(R + 1)), FFromInt(i))
    /\ FLE(FFromInt(i + 1), FAdd(c, FFromInt(R)))

\* C6: for ROI_SIZE >= 0 the slice bounds of the flux sum are never negative and never past the
\* frame, every row and column summed is an index of the frame and lies within
\* ROI_SIZE of the weighted centroid (in the window that starts at centroid -
\* ROI_SIZE, truncated to a pixel index, and ends before centroid + ROI_SIZE),
\* and the integration ends without an error with the sum over that window.
C6_ROIClipped ==
    (Past("integrate") /\ ROI_SIZE >= 0)
    => LET H == maskedTwoDImage.shape[1]
           W == maskedTwoDImage.shape[2]
       IN  /\ error = "none" \/ Past("elements")
           /\ 0 <= roi.r0 /\ roi.r1 <= H
           /\ 0 <= roi.c0 /\ roi.c1 <= W
           /\ roi.rows \subseteq 0 .. (H - 1)
           /\ roi.cols \subseteq 0 .. (W - 1)
           /\ \A i \in roi.rows : NearCentroid(i, weighted_center_of_mass[1], ROI_SIZE)
           /\ \A j \in roi.cols : NearCentroid(j, weighted_center_of_mass[2], ROI_SIZE)
           /\ ITotal_region = WindowSum(maskedTwoDImage, roi.rows, roi.cols)

\* A centroid closer than ROI_SIZE to the top and left edges, away from the
\* unweighted one, whose window is cut at row 0 and column 0 and is not empty.
C6_Witness ==
    /\ Past("integrate")
    /\ ROI_SIZE > 0
    /\ FLT(weighted_center_of_mass[1], FFromInt(ROI_SIZE))
    /\ FLT(weighted_center_of_mass[2], FFromInt(ROI_SIZE))
    /\ weighted_center_of_mass # center_of_mass
    /\ roi.r0 = 0 /\ roi.c0 = 0
    /\ roi.rows # {} /\ roi.cols # {}
    /\ roi.rows # 0 .. (maskedTwoDImage.shape[1] - 1)

\* ------------------------------------------------------------------------
\* C7
\* ------------------------------------------------------------------------
\* C7: once the centroids are taken the foreground is not empty and the
\* weighted centroid lies, on each axis, between the smallest and the largest
\* foreground index; a foreground of one pixel has both centroids on it.
C7_WeightedCentroidInBox ==
    Past("centroids")
    => /\ Foreground # {}
       /\ \A k \in 1 .. 2 :
            \E lo \in Foreground, hi \in Foreground :
               /\ \A q \in Foreground : lo[k] <= q[k] /\ q[k] <= hi[k]
               /\ FLE(FFromInt(lo[k]), weighted_center_of_mass[k])
               /\ FLE(weighted_center_of_mass[k], FFromInt(hi[k]))
       /\ \A p \in Foreground :
            Foreground = {p}
            => /\ center_of_mass = <<FFromInt(p[1]), FFromInt(p[2])>>
               /\ weighted_center_of_mass = <<FFromInt(p[1]), FFromInt(p[2])>>

C7_Witness ==
    /\ Past("centroids")
    /\ Foreground = { <<5, 5>> }
    /\ center_of_mass = <<FFromInt(5), FFromInt(5)>>
    /\ weighted_center_of_mass = <<FFromInt(5), FFromInt(5)>>

\* ------------------------------------------------------------------------
\* C8
\* ------------------------------------------------------------------------
\* x is a number of the interval [0, VMax]
InRange(x) ==
    /\ IsFinite(x)
    /\ IsZero(x) \/ (~x.neg /\ (Trunc(x) < VMax \/ x = FFromInt(VMax)))

\* C8: for every pixel the validity mask is 1 exactly when the intensity is in
\* [0, V_max], both ends included, and 0 otherwise; the masked frame has the
\* intensity where the mask is 1 and 0 elsewhere, so it is all zero when every
\* pixel is invalid.
C8_ValidityMask ==
    Past("reduce")
    => /\ labeled_foreground.shape = imageData.shape
       /\ maskedTwoDImage.shape = imageData.shape
       /\ \A idx \in DOMAIN imageData.data :
            /\ labeled_foreground.data[idx] = (IF InRange(imageData.data[idx]) THEN 1 ELSE 0)
            /\ FEq(maskedTwoDImage.data[idx],
                   IF labeled_foreground.data[idx] = 1 THEN imageData.data[idx] ELSE Zero)
       /\ (\A idx \in DOMAIN imageData.data : ~InRange(imageData.data[idx]))
            => \A idx \in DOMAIN maskedTwoDImage.data : FEq(maskedTwoDImage.data[idx], Zero)

\* ------------------------------------------------------------------------
\* C9
\* ------------------------------------------------------------------------
\* C9: the threshold is the larger of 1 and 0.0001 * max(masked), hence at
\* least 1; the peak label is 1 exactly where the masked intensity is strictly
\* above it; an all-zero masked frame gives an all-zero label, and the
\* thresholding step raises nothing.
C9_Threshold ==
    Past("segment")
    => /\ FLE(One, threshold_value)
       /\ \A idx \in DOMAIN maskedTwoDImage.data :
            FLE(FMul(KFrac, maskedTwoDImage.data[idx]), threshold_value)
       /\ \/ threshold_value = One
          \/ \E idx \in DOMAIN maskedTwoDImage.data :
                threshold_value = FMul(KFrac, maskedTwoDImage.data[idx])
       /\ \A idx \in DOMAIN maskedTwoDImage.data :
            labeled_peak.data[idx] =
               (IF FLT(threshold_value, maskedTwoDImage.data[idx]) THEN 1 ELSE 0)
       /\ (\A idx \in DOMAIN maskedTwoDImage.data : FEq(maskedTwoDImage.data[idx], Zero))
            => Foreground = {}
       /\ pc = "regionprops" => error = "none"

\* ------------------------------------------------------------------------
\* C10
\* ------------------------------------------------------------------------
InputRank == Len(h5_in.data.shape)

\* The 2-D slice of the input at leading index 0, ..., 0.
FirstSlice(idx) == h5_in.data.data[[a \in 1 .. (InputRank - 2) |-> 0] \o idx]

IdenticalSlices ==
    \A idx \in DOMAIN h5_in.data.data :
       h5_in.data.data[idx] = FirstSlice(SubSeq(idx, InputRank - 1, InputRank))

\* The reduction ends after rank - 2 passes with a 2-D array of the input's
\* two trailing dimensions, and a 2-D input is left as it is.
RankReduced ==
    /\ pc = "reduce" => iterations + Ndim(imageData) = InputRank
    /\ Past("reduce")
       => /\ iterations = InputRank - 2
          /\ Ndim(imageData) = 2
          /\ imageData.shape = SubSeq(h5_in.data.shape, InputRank - 1, InputRank)
          /\ InputRank = 2 => imageData = h5_in.data

\* A stack of identical slices has been reduced to that slice.
ReducedToSlice ==
    (Past("reduce") /\ IdenticalSlices)
    => \A idx \in DOMAIN imageData.data : imageData.data[idx] = FirstSlice(idx)

\* C10: while the loop runs, the passes made plus the rank left equal the rank
\* r of the input; after it exactly r - 2 passes were made, the array has rank
\* 2 and the input's two trailing dimensions; for r = 2 it is the input; and a
\* stack of identical 2-D slices reduces to that slice.
C10_FrameReducer == RankReduced /\ ReducedToSlice

\* C10 (what holds): the rank, the shape and the number of passes are as C10
\* says, and a stack of identical slices of an integer dataset reduces to that
\* slice.
C10_IntegerStacks ==
    RankReduced /\ (h5_in.data.dtype = "int" => ReducedToSlice)

\* ------------------------------------------------------------------------
\* C8 and C9 on frames without nan or inf
\* ------------------------------------------------------------------------
FiniteInput == \A idx \in DOMAIN h5_in.data.data : IsFinite(h5_in.data.data[idx])

\* C8 (finite intensities only): on a file whose intensities are all finite
\* the validity mask and the masked frame are as C8 says.
C8_FiniteFrames == FiniteInput => C8_ValidityMask

\* C9 (finite intensities only): on a file whose intensities are all finite
\* the threshold and the peak label are as C9 says.
C9_FiniteFrames == FiniteInput => C9_Threshold

====
